---- MODULE Spec2Model ----
(***************************************************************************)
(* Bit-level PDU field codec of tetra-bluestation: the cursor buffer, the  *)
(* presence bits, the Type-2 / Type-3 / Type-4 element helpers             *)
(* (src/src/common/typed_pdu_fields.rs) and the U-ATTACH/DETACH GROUP      *)
(* IDENTITY message built from them                                        *)
(* (src/src/entities/mm/pdus/u_attach_detach_group_identity.rs).           *)
(*                                                                         *)
(* A buffer is a record [bits, pos]: the bit string and the cursor.  Every *)
(* helper is an operator from the buffer it is handed to a record holding  *)
(* its Rust return value and the buffer as the call leaves it, so the      *)
(* effect of `&mut BitBuffer` is explicit.                                 *)
(***************************************************************************)
EXTENDS Integers, Sequences, FiniteSets, TLC

VARIABLES buffer, pc, result, out, input

vars == <<buffer, pc, result, out, input>>

-----------------------------------------------------------------------------
(* Bounds of the model *)

\* sub-elements in a Type-4 sequence
MaxElems == 2
\* payload bits of a Type-3 element on the wire
MaxT3Len == 2
\* bits cut from the end of a wire string
MaxCut == 3
\* length of the exhaustively enumerated short buffers
MaxShort == 8
\* width of a Type-2 value
MaxWidth == 2

-----------------------------------------------------------------------------
(* Program constants *)

\* MmPduTypeUl::UAttachDetachGroupIdentity (the test vector starts 0111)
PduTypeUAttachDetachGroupIdentity == 7
\* MmType34ElemIdUl::GroupReportResponse
ElemGroupReportResponse == 4
\* MmType34ElemIdUl::GroupIdentityUplink (field_id = 8 in the test's comment)
ElemGroupIdentityUplink == 8
\* MmType34ElemIdUl::Proprietary
ElemProprietary == 15

-----------------------------------------------------------------------------
(* Option<T> and the two error enums *)

Some(v) == [some |-> TRUE, val |-> v]
NoneInt == [some |-> FALSE, val |-> 0]
NoneSeq == [some |-> FALSE, val |-> <<>>]

\* PduParseError
NoErr == [kind |-> "None", field |-> "", expected |-> 0, found |-> 0]
BufferEnded(f) == [kind |-> "BufferEnded", field |-> f, expected |-> 0, found |-> 0]
InvalidPduType(e, f) == [kind |-> "InvalidPduType", field |-> "", expected |-> e, found |-> f]
InvalidObitValue == [kind |-> "InvalidObitValue", field |-> "", expected |-> 0, found |-> 0]

\* type34::Type34Err
Type34Err == {"FieldNotPresent", "InvalidId", "OutOfBounds"}

-----------------------------------------------------------------------------
(* BitBuffer: bits are most-significant first *)

Bit == {0, 1}

RECURSIVE BitsToNat(_)
BitsToNat(s) ==
    IF s = <<>> THEN 0
    ELSE 2 * BitsToNat(SubSeq(s, 1, Len(s) - 1)) + s[Len(s)]

\* the n low bits of v, most significant first: a wider value is cut to n bits
RECURSIVE NatToBits(_, _)
NatToBits(v, n) ==
    IF n = 0 THEN <<>>
    ELSE Append(NatToBits(v \div 2, n - 1), v % 2)

\* every bit string of at most n bits
RECURSIVE BitStrings(_)
BitStrings(n) ==
    IF n = 0 THEN {<<>>}
    ELSE LET shorter == BitStrings(n - 1)
         IN  shorter \cup {Append(s, x) : s \in {t \in shorter : Len(t) = n - 1}, x \in Bit}

from_bitstr(s) == [bits |-> s, pos |-> 0]

new_autoexpand == [bits |-> <<>>, pos |-> 0]

to_bitstr(b) == b.bits

peek_bits_posoffset(b, skip, n) ==
    IF b.pos + skip + n <= Len(b.bits)
    THEN Some(BitsToNat(SubSeq(b.bits, b.pos + skip + 1, b.pos + skip + n)))
    ELSE NoneInt

peek_bits(b, n) == peek_bits_posoffset(b, 0, n)

read_bits(b, n) ==
    LET advance(v) == [res |-> v, buf |-> IF v.some THEN [b EXCEPT !.pos = @ + n] ELSE b]
    IN  advance(peek_bits(b, n))

read_field(b, n, field_name) ==
    LET field(r) ==
            IF r.res.some
            THEN [ok |-> TRUE, val |-> r.res.val, err |-> NoErr, buf |-> r.buf]
            ELSE [ok |-> FALSE, val |-> 0, err |-> BufferEnded(field_name), buf |-> r.buf]
    IN  field(read_bits(b, n))

seek_rel(b, n) == [b EXCEPT !.pos = @ + n]

get_raw_pos(b) == b.pos

set_raw_pos(b, p) == [b EXCEPT !.pos = p]

\* writes at the cursor: overwrites what is there and grows the buffer
write_bits(b, v, n) ==
    LET new == NatToBits(v, n)
        end == b.pos + n
    IN  [bits |-> SubSeq(b.bits, 1, b.pos) \o new
                    \o SubSeq(b.bits, end + 1, Len(b.bits)),
         pos |-> end]

write_bit(b, v) == write_bits(b, v, 1)

-----------------------------------------------------------------------------
(* delimiters *)

\* read_obit with the p-bit's field name
read_obit_as_pbit(b) ==
    LET flag(r) == [ok |-> r.ok, val |-> r.ok /\ r.val = 1, err |-> r.err, buf |-> r.buf]
    IN  flag(read_field(b, 1, "pbit"))

read_obit(b) ==
    LET flag(r) == [ok |-> r.ok, val |-> r.ok /\ r.val = 1, err |-> r.err, buf |-> r.buf]
    IN  flag(read_field(b, 1, "obit"))

write_obit(b, v) == write_bit(b, v)

read_pbit(b) ==
    LET flag(r) == [ok |-> r.ok, val |-> r.ok /\ r.val = 1, err |-> r.err, buf |-> r.buf]
    IN  flag(read_field(b, 1, "pbit"))

write_pbit(b, v) == write_bit(b, v)

write_mbit(b, v) == write_bit(b, v)

-----------------------------------------------------------------------------
(* type2 *)

\* type2::parse that peeks the p-bit: an absent field consumes nothing
type2_parse_peeking(b, num_bits, field_name) ==
    LET value(r) ==
            IF r.ok
            THEN [ok |-> TRUE, val |-> Some(r.val), err |-> NoErr, buf |-> r.buf]
            ELSE [ok |-> FALSE, val |-> NoneInt, err |-> r.err, buf |-> r.buf]
        pbit(p) ==
            IF ~p.ok THEN [ok |-> FALSE, val |-> NoneInt, err |-> p.err, buf |-> p.buf]
            ELSE IF p.val THEN value(read_field(p.buf, num_bits, field_name))
            ELSE [ok |-> TRUE, val |-> NoneInt, err |-> NoErr, buf |-> b]
    IN  pbit(read_pbit(b))

\* pbit(p) is the body after `let pbit = read_pbit(buffer)?`, value(r) the
\* body after the read of the field's bits
type2_parse(b, num_bits, field_name) ==
    LET value(r) ==
            IF r.ok
            THEN [ok |-> TRUE, val |-> Some(r.val), err |-> NoErr, buf |-> r.buf]
            ELSE [ok |-> FALSE, val |-> NoneInt, err |-> r.err, buf |-> r.buf]
        pbit(p) ==
            IF ~p.ok THEN [ok |-> FALSE, val |-> NoneInt, err |-> p.err, buf |-> p.buf]
            ELSE IF p.val THEN value(read_field(p.buf, num_bits, field_name))
            ELSE [ok |-> TRUE, val |-> NoneInt, err |-> NoErr, buf |-> p.buf]
    IN  pbit(read_pbit(b))

type2_write(b, value, len) ==
    IF value.some
    THEN write_bits(write_pbit(b, 1), value.val, len)
    ELSE write_pbit(b, 0)

-----------------------------------------------------------------------------
(* GroupIdentityUplink: the sub-element of the Type-4 "group identity      *)
(* uplink" element.  1-bit attach/detach type identifier; 3-bit class of   *)
(* usage (attach) or 2-bit detachment reason (detach); 2-bit address type; *)
(* then a 24-bit GSSI (types 0, 1), a 24-bit address extension (type 1)    *)
(* and a 24-bit VGSSI (type 2).  The test vector's 30 bits of field        *)
(* contents are one such element: 0 100 00 + 24-bit GSSI.                  *)

GroupIdentityUplink(tid, cou, det, at, gssi, ext, vgssi) ==
    [group_identity_attach_detach_type_identifier |-> tid,
     class_of_usage |-> cou,
     group_identity_detachment_uplink |-> det,
     group_identity_address_type |-> at,
     gssi |-> gssi,
     address_extension |-> ext,
     vgssi |-> vgssi]

NoGroupIdentityUplink ==
    GroupIdentityUplink(0, NoneInt, NoneInt, 0, NoneInt, NoneInt, NoneInt)

\* one optional fixed-width field of the sub-element: read only when `cond`
giu_read_if(st, cond, n, field_name) ==
    LET field(r) == [ok |-> r.ok, val |-> IF r.ok THEN Some(r.val) ELSE NoneInt,
                     err |-> r.err, buf |-> r.buf]
    IN  IF ~st.ok \/ ~cond THEN [st EXCEPT !.val = NoneInt]
        ELSE field(read_field(st.buf, n, field_name))

\* the fields in wire order; each local operator is the rest of the decode
\* once the fields it is given have been read
giu_from_bitbuf(b) ==
    LET vgssi(t, c, d, a, g, e, v) ==
            IF v.ok
            THEN [ok |-> TRUE, err |-> NoErr, buf |-> v.buf,
                  val |-> GroupIdentityUplink(t.val, c.val, d.val, a.val.val,
                                              g.val, e.val, v.val)]
            ELSE [ok |-> FALSE, err |-> v.err, buf |-> v.buf,
                  val |-> NoGroupIdentityUplink]
        extension(t, c, d, a, g, e) ==
            vgssi(t, c, d, a, g, e, giu_read_if(e, a.val.val = 2, 24, "vgssi"))
        gssi(t, c, d, a, g) ==
            extension(t, c, d, a, g,
                      giu_read_if(g, a.val.val = 1, 24, "address_extension"))
        address_type(t, c, d, a) ==
            gssi(t, c, d, a, giu_read_if(a, a.val.val \in {0, 1}, 24, "gssi"))
        detachment(t, c, d) ==
            address_type(t, c, d,
                         giu_read_if(d, TRUE, 2, "group_identity_address_type"))
        class(t, c) ==
            detachment(t, c,
                       giu_read_if(c, t.val = 1, 2, "group_identity_detachment_uplink"))
        type_identifier(t) ==
            class(t, giu_read_if([ok |-> t.ok, val |-> NoneInt, err |-> t.err,
                                  buf |-> t.buf],
                                 t.val = 0, 3, "class_of_usage"))
    IN  type_identifier(
            read_field(b, 1, "group_identity_attach_detach_type_identifier"))

giu_write_if(b, opt, n) == IF opt.some THEN write_bits(b, opt.val, n) ELSE b

giu_to_bitbuf(e, b) ==
    LET b1 == write_bits(b, e.group_identity_attach_detach_type_identifier, 1)
        b2 == giu_write_if(b1, e.class_of_usage, 3)
        b3 == giu_write_if(b2, e.group_identity_detachment_uplink, 2)
        b4 == write_bits(b3, e.group_identity_address_type, 2)
        b5 == giu_write_if(b4, e.gssi, 24)
        b6 == giu_write_if(b5, e.address_extension, 24)
        b7 == giu_write_if(b6, e.vgssi, 24)
    IN  [ok |-> TRUE, err |-> NoErr, buf |-> b7]

-----------------------------------------------------------------------------
(* type34 *)

\* "Ok" or the Type34Err the check returns; the buffer is only peeked
check_peek_mbit(b) ==
    LET mbit(v) ==
            IF ~v.some THEN "OutOfBounds"
            ELSE IF v.val = 0 THEN "FieldNotPresent"
            ELSE "Ok"
    IN  mbit(peek_bits(b, 1))

\* check_peek_id that forgets to skip the m-bit
check_peek_id_at_cursor(b, expected_id) ==
    LET id(id_bits) ==
            IF ~id_bits.some THEN "OutOfBounds"
            ELSE IF id_bits.val = expected_id THEN "Ok"
            ELSE "FieldNotPresent"
    IN  id(peek_bits_posoffset(b, 0, 4))

check_peek_id(b, expected_id) ==
    LET id(id_bits) ==
            IF ~id_bits.some THEN "OutOfBounds"
            ELSE IF id_bits.val = expected_id THEN "Ok"
            ELSE "FieldNotPresent"
    IN  id(peek_bits_posoffset(b, 1, 4))

Type3Err(e, b) == [kind |-> "Err", err |-> e, len |-> 0, data |-> 0, buf |-> b]

\* each local operator is the rest of the function once the value it is
\* given has been read: the m-bit check, the id check, the length, the data
parse_type3_generic(b, expected_id) ==
    LET data(l, d) ==
            IF ~d.res.some THEN Type3Err("OutOfBounds", d.buf)
            ELSE [kind |-> "Ok", err |-> "", len |-> l.res.val, data |-> d.res.val,
                  buf |-> d.buf]
        len_bits(l) ==
            IF ~l.res.some THEN Type3Err("OutOfBounds", l.buf)
            ELSE data(l, read_bits(l.buf, l.res.val))
        id(i) ==
            IF i # "Ok" THEN Type3Err(i, b)
            ELSE len_bits(read_bits(seek_rel(b, 5), 11))
        mbit(m) ==
            IF m # "Ok" THEN Type3Err(m, b)
            ELSE id(check_peek_id(b, expected_id))
    IN  mbit(check_peek_mbit(b))

\* the delegate is GroupIdentityUplink::from_bitbuf
parse_type3_struct(b, expected_id) ==
    LET none == [kind |-> "Ok", err |-> "", some |-> FALSE,
                 val |-> NoGroupIdentityUplink, buf |-> b]
        fail(e, bb) == [kind |-> "Err", err |-> e, some |-> FALSE,
                        val |-> NoGroupIdentityUplink, buf |-> bb]
        parsed(p) ==
            IF p.ok
            THEN [kind |-> "Ok", err |-> "", some |-> TRUE, val |-> p.val, buf |-> p.buf]
            ELSE fail("OutOfBounds", p.buf)
        len_bits(l) ==
            IF ~l.res.some THEN fail("OutOfBounds", l.buf)
            ELSE parsed(giu_from_bitbuf(l.buf))
        id(i) ==
            IF i = "FieldNotPresent" THEN none
            ELSE IF i # "Ok" THEN fail(i, b)
            ELSE len_bits(read_bits(seek_rel(b, 5), 11))
        mbit(m) ==
            IF m = "FieldNotPresent" THEN none
            ELSE IF m # "Ok" THEN fail(m, b)
            ELSE id(check_peek_id(b, expected_id))
    IN  mbit(check_peek_mbit(b))

write_type34_header_generic(b, field_type) ==
    write_bits(write_mbit(b, 1), field_type, 4)

Type4HdrErr(kind, e, b) ==
    [kind |-> kind, err |-> e, num_elems |-> 0, len_bits |-> 0, wrapped |-> FALSE,
     buf |-> b]

\* parse_type4_header_generic that skips the m-bit and id before comparing
\* the id: a probe for another identity moves the cursor
parse_type4_header_generic_consuming(b, expected_id, overflow_checks) ==
    LET num_elems(l, n) ==
            IF ~n.res.some THEN Type4HdrErr("Err", "OutOfBounds", n.buf)
            ELSE IF l.res.val < 6 /\ overflow_checks
                 THEN Type4HdrErr("Panic", "", n.buf)
            ELSE [kind |-> "Ok", err |-> "", num_elems |-> n.res.val,
                  len_bits |-> l.res.val - 6, wrapped |-> l.res.val < 6,
                  buf |-> n.buf]
        len_bits(l) ==
            IF ~l.res.some THEN Type4HdrErr("Err", "OutOfBounds", l.buf)
            ELSE num_elems(l, read_bits(l.buf, 6))
        id(i) ==
            IF i # "Ok" THEN Type4HdrErr("Err", i, seek_rel(b, 5))
            ELSE len_bits(read_bits(seek_rel(b, 5), 11))
        mbit(m) ==
            IF m # "Ok" THEN Type4HdrErr("Err", m, b)
            ELSE id(check_peek_id(b, expected_id))
    IN  mbit(check_peek_mbit(b))

\* `len_bits-6` is a usize subtraction.  With a declared length below 6 it
\* panics where the build checks overflow (overflow_checks, the debug
\* profile) and wraps where it does not: the value returned is then
\* len_bits - 6 modulo the usize range, written here as the negative number
\* with wrapped = TRUE.
parse_type4_header_generic(b, expected_id, overflow_checks) ==
    LET num_elems(l, n) ==
            IF ~n.res.some THEN Type4HdrErr("Err", "OutOfBounds", n.buf)
            ELSE IF l.res.val < 6 /\ overflow_checks
                 THEN Type4HdrErr("Panic", "", n.buf)
            ELSE [kind |-> "Ok", err |-> "", num_elems |-> n.res.val,
                  len_bits |-> l.res.val - 6, wrapped |-> l.res.val < 6,
                  buf |-> n.buf]
        len_bits(l) ==
            IF ~l.res.some THEN Type4HdrErr("Err", "OutOfBounds", l.buf)
            ELSE num_elems(l, read_bits(l.buf, 6))
        id(i) ==
            IF i # "Ok" THEN Type4HdrErr("Err", i, b)
            ELSE len_bits(read_bits(seek_rel(b, 5), 11))
        mbit(m) ==
            IF m # "Ok" THEN Type4HdrErr("Err", m, b)
            ELSE id(check_peek_id(b, expected_id))
    IN  mbit(check_peek_mbit(b))

\* the delegate is GroupIdentityUplink::from_bitbuf; calls counts the
\* delegate's invocations
parse_type4_struct(b, expected_id, overflow_checks) ==
    LET ret(kind, e, v, bb, calls, wrapped) ==
            [kind |-> kind, err |-> e, val |-> v, buf |-> bb, calls |-> calls,
             wrapped |-> wrapped]
        \* one iteration of the `for` loop: prev is the state before it, p
        \* what the delegate returned
        push(prev, p) ==
            [ok |-> p.ok,
             elems |-> IF p.ok THEN Append(prev.elems, p.val) ELSE prev.elems,
             buf |-> p.buf, calls |-> prev.calls + 1]
        \* the `for` loop with n iterations to go: a delegate's error leaves it
        RECURSIVE loop(_, _)
        loop(prev, n) ==
            IF n = 0 \/ ~prev.ok THEN prev
            ELSE loop(push(prev, giu_from_bitbuf(prev.buf)), n - 1)
        elems(h, r) ==
            IF r.ok THEN ret("Ok", "", Some(r.elems), r.buf, r.calls, h.wrapped)
            ELSE ret("Err", "OutOfBounds", NoneSeq, r.buf, r.calls, h.wrapped)
        header(h) ==
            IF h.kind = "Ok"
            THEN elems(h, loop([ok |-> TRUE, elems |-> <<>>, buf |-> h.buf,
                                calls |-> 0],
                               h.num_elems))
            ELSE IF h.kind = "Panic" THEN ret("Panic", "", NoneSeq, h.buf, 0, FALSE)
            ELSE IF h.err = "FieldNotPresent"
                 THEN ret("Ok", "", NoneSeq, h.buf, 0, FALSE)
            ELSE ret("Err", h.err, NoneSeq, h.buf, 0, FALSE)
    IN  header(parse_type4_header_generic(b, expected_id, overflow_checks))

\* write_type4_struct whose length also counts the length field itself
write_type4_struct_long(b, value, field_id) ==
    LET elems == value.val
        num_elems == Len(elems)
        \* the fields filled in once the elements are written: w is the
        \* writers' outcome, pos_len_field where the length field starts
        backfill(w, pos_len_field) ==
            LET pos_end == get_raw_pos(w.buf)
                len_bits == pos_end - pos_len_field
            IN  IF ~w.ok THEN w
                ELSE [ok |-> TRUE, err |-> NoErr,
                      buf |-> set_raw_pos(
                                  write_bits(
                                      write_bits(set_raw_pos(w.buf, pos_len_field),
                                                 len_bits, 11),
                                      num_elems, 6),
                                  pos_end)]
        \* the `for` loop over the elements, from the n-th on: a writer's error
        \* leaves it
        RECURSIVE loop(_, _)
        loop(prev, n) ==
            IF n > num_elems \/ ~prev.ok THEN prev
            ELSE loop(giu_to_bitbuf(elems[n], prev.buf), n + 1)
        \* after the header hdr, 17 bits are reserved for length and count
        header(hdr) ==
            backfill(loop([ok |-> TRUE, err |-> NoErr, buf |-> write_bits(hdr, 0, 17)],
                          1),
                     get_raw_pos(hdr))
    IN  IF ~value.some THEN [ok |-> TRUE, err |-> NoErr, buf |-> b]
        ELSE header(write_type34_header_generic(b, field_id))

\* write_type4_struct without the final set_raw_pos(pos_end): the cursor stays
\* after the count field
write_type4_struct_no_seek_forward(b, value, field_id) ==
    LET elems == value.val
        num_elems == Len(elems)
        \* the fields filled in once the elements are written: w is the
        \* writers' outcome, pos_len_field where the length field starts
        backfill(w, pos_len_field) ==
            LET pos_end == get_raw_pos(w.buf)
                len_bits == pos_end - pos_len_field - 11
            IN  IF ~w.ok THEN w
                ELSE [ok |-> TRUE, err |-> NoErr,
                      buf |-> write_bits(
                                  write_bits(set_raw_pos(w.buf, pos_len_field),
                                             len_bits, 11),
                                  num_elems, 6)]
        \* the `for` loop over the elements, from the n-th on: a writer's error
        \* leaves it
        RECURSIVE loop(_, _)
        loop(prev, n) ==
            IF n > num_elems \/ ~prev.ok THEN prev
            ELSE loop(giu_to_bitbuf(elems[n], prev.buf), n + 1)
        \* after the header hdr, 17 bits are reserved for length and count
        header(hdr) ==
            backfill(loop([ok |-> TRUE, err |-> NoErr, buf |-> write_bits(hdr, 0, 17)],
                          1),
                     get_raw_pos(hdr))
    IN  IF ~value.some THEN [ok |-> TRUE, err |-> NoErr, buf |-> b]
        ELSE header(write_type34_header_generic(b, field_id))

\* the writer is GroupIdentityUplink::to_bitbuf
write_type4_struct(b, value, field_id) ==
    LET elems == value.val
        num_elems == Len(elems)
        \* the fields filled in once the elements are written: w is the
        \* writers' outcome, pos_len_field where the length field starts
        backfill(w, pos_len_field) ==
            LET pos_end == get_raw_pos(w.buf)
                len_bits == pos_end - pos_len_field - 11
            IN  IF ~w.ok THEN w
                ELSE [ok |-> TRUE, err |-> NoErr,
                      buf |-> set_raw_pos(
                                  write_bits(
                                      write_bits(set_raw_pos(w.buf, pos_len_field),
                                                 len_bits, 11),
                                      num_elems, 6),
                                  pos_end)]
        \* the `for` loop over the elements, from the n-th on: a writer's error
        \* leaves it
        RECURSIVE loop(_, _)
        loop(prev, n) ==
            IF n > num_elems \/ ~prev.ok THEN prev
            ELSE loop(giu_to_bitbuf(elems[n], prev.buf), n + 1)
        \* after the header hdr, 17 bits are reserved for length and count
        header(hdr) ==
            backfill(loop([ok |-> TRUE, err |-> NoErr, buf |-> write_bits(hdr, 0, 17)],
                          1),
                     get_raw_pos(hdr))
    IN  IF ~value.some THEN [ok |-> TRUE, err |-> NoErr, buf |-> b]
        ELSE header(write_type34_header_generic(b, field_id))

-----------------------------------------------------------------------------
(* MmType3FieldUl: a Type-3 element kept as raw data (field_type, len,     *)
(* data), read with parse_type3_generic and written as header, 11-bit      *)
(* length and the data.                                                    *)

NoType3Field == [field_type |-> 0, len |-> 0, data |-> 0]
NoneType3 == [some |-> FALSE, val |-> NoType3Field]

MmType3FieldUl_parse(b, expected_id) ==
    LET field(r) ==
            [kind |-> r.kind, err |-> r.err, buf |-> r.buf,
             val |-> IF r.kind = "Ok"
                     THEN [field_type |-> expected_id, len |-> r.len, data |-> r.data]
                     ELSE NoType3Field]
    IN  field(parse_type3_generic(b, expected_id))

MmType3FieldUl_write(b, field_type, data, len) ==
    write_bits(write_bits(write_type34_header_generic(b, field_type), len, 11),
               data, len)

-----------------------------------------------------------------------------
(* UAttachDetachGroupIdentity *)

NoPdu ==
    [group_identity_report |-> FALSE,
     group_identity_attach_detach_mode |-> FALSE,
     group_report_response |-> NoneType3,
     group_identity_uplink |-> NoneSeq,
     proprietary |-> NoneType3]

\* What a call of from_bitbuf leaves behind.  kind, err, pdu and buf are the
\* call's outcome; the other fields record what the call did on the way:
\* obit is the o-bit read (-1: not reached), grr / giu / prop the outcome of
\* each optional element's parse ("": not called, "Ok", a Type34Err or
\* "Panic"), term_pos the cursor where the trailing bit was read (-1: no
\* trailing bit was read), wrapped whether `len_bits-6` wrapped around.
NoDecode ==
    [kind |-> "Err", err |-> NoErr, pdu |-> NoPdu, buf |-> new_autoexpand,
     obit |-> -1, grr |-> "", giu |-> "", prop |-> "", term_pos |-> -1,
     wrapped |-> FALSE]

Outcome(r) == IF r.kind = "Err" THEN r.err ELSE r.kind

\* `if obit { match MmType3FieldUl::parse(..) { Ok(v) => Some(v), Err(_) => None } }
\*  else { None }`: every Err of the parse leaves the field absent
parse_optional_type3(obit, b, expected_id) ==
    LET matched(r) ==
            [outcome |-> Outcome(r), buf |-> r.buf,
             val |-> IF r.kind = "Ok" THEN Some(r.val) ELSE NoneType3]
    IN  IF obit THEN matched(MmType3FieldUl_parse(b, expected_id))
        ELSE [outcome |-> "", buf |-> b, val |-> NoneType3]

\* the trailing bit read but not checked
read_trailing_mbit_unchecked(obit, b) ==
    LET trailing(r) ==
            IF ~r.ok THEN [ok |-> FALSE, err |-> r.err, buf |-> r.buf, term_pos |-> b.pos]
            ELSE [ok |-> TRUE, err |-> NoErr, buf |-> r.buf, term_pos |-> b.pos]
    IN  IF ~obit THEN [ok |-> TRUE, err |-> NoErr, buf |-> b, term_pos |-> -1]
        ELSE trailing(read_field(b, 1, "trailing_obit"))

\* the trailing bit: read only when the o-bit was set, and then it must be 0
read_trailing_mbit(obit, b) ==
    LET trailing(r) ==
            IF ~r.ok THEN [ok |-> FALSE, err |-> r.err, buf |-> r.buf, term_pos |-> b.pos]
            ELSE IF r.val = 1
            THEN [ok |-> FALSE, err |-> InvalidObitValue, buf |-> r.buf,
                  term_pos |-> b.pos]
            ELSE [ok |-> TRUE, err |-> NoErr, buf |-> r.buf, term_pos |-> b.pos]
    IN  IF ~obit THEN [ok |-> TRUE, err |-> NoErr, buf |-> b, term_pos |-> -1]
        ELSE trailing(read_field(b, 1, "trailing_obit"))

\* each local operator is the rest of the decode once the values it is given
\* have been read, in the order of the code: pdu_type, the two flags, the
\* o-bit, then the three optional elements and the trailing bit
from_bitbuf(b, overflow_checks) ==
    LET seen(o, grr, giu) ==
            [NoDecode EXCEPT !.obit = IF o.val THEN 1 ELSE 0,
                             !.grr = grr.outcome, !.giu = Outcome(giu),
                             !.wrapped = giu.wrapped, !.buf = giu.buf]
        probed(o, grr, giu, prop, trail) ==
            [seen(o, grr, giu) EXCEPT !.prop = prop.outcome, !.buf = trail.buf,
                                      !.term_pos = trail.term_pos]
        trailing(gir, mode, o, grr, giu, prop, trail) ==
            IF ~trail.ok THEN [probed(o, grr, giu, prop, trail) EXCEPT !.err = trail.err]
            ELSE [probed(o, grr, giu, prop, trail) EXCEPT
                    !.kind = "Ok",
                    !.pdu = [group_identity_report |-> gir.val # 0,
                             group_identity_attach_detach_mode |-> mode.val # 0,
                             group_report_response |-> grr.val,
                             group_identity_uplink |-> giu.val,
                             proprietary |-> prop.val]]
        proprietary(gir, mode, o, grr, giu, prop) ==
            trailing(gir, mode, o, grr, giu, prop, read_trailing_mbit(o.val, prop.buf))
        group_identity_uplink(gir, mode, o, grr, giu) ==
            IF giu.kind = "Panic" THEN [seen(o, grr, giu) EXCEPT !.kind = "Panic"]
            ELSE IF giu.kind = "Err"
            THEN [seen(o, grr, giu) EXCEPT !.err = BufferEnded("group_identity_uplink")]
            ELSE proprietary(gir, mode, o, grr, giu,
                             parse_optional_type3(o.val, giu.buf, ElemProprietary))
        \* Type4: parsed whatever the o-bit is
        group_report_response(gir, mode, o, grr) ==
            group_identity_uplink(gir, mode, o, grr,
                parse_type4_struct(grr.buf, ElemGroupIdentityUplink, overflow_checks))
        obit(gir, mode, o) ==
            IF ~o.ok THEN [NoDecode EXCEPT !.err = o.err, !.buf = o.buf]
            ELSE group_report_response(gir, mode, o,
                    parse_optional_type3(o.val, o.buf, ElemGroupReportResponse))
        group_identity_attach_detach_mode(gir, mode) ==
            IF ~mode.ok THEN [NoDecode EXCEPT !.err = mode.err, !.buf = mode.buf]
            ELSE obit(gir, mode, read_obit(mode.buf))
        group_identity_report(gir) ==
            IF ~gir.ok THEN [NoDecode EXCEPT !.err = gir.err, !.buf = gir.buf]
            ELSE group_identity_attach_detach_mode(gir,
                    read_field(gir.buf, 1, "group_identity_attach_detach_mode"))
        pdu_type(t) ==
            IF ~t.ok THEN [NoDecode EXCEPT !.err = t.err, !.buf = t.buf]
            ELSE IF t.val # PduTypeUAttachDetachGroupIdentity
            THEN [NoDecode EXCEPT
                    !.err = InvalidPduType(PduTypeUAttachDetachGroupIdentity, t.val),
                    !.buf = t.buf]
            ELSE group_identity_report(
                    read_field(t.buf, 1, "group_identity_report"))
    IN  pdu_type(read_field(b, 4, "pdu_type"))

Bool2Int(x) == IF x THEN 1 ELSE 0

\* to_bitbuf without the early return: the m-bit is written after an o-bit 0
to_bitbuf_always_terminated(pdu, b) ==
    LET obit_val == \/ pdu.group_report_response.some
                    \/ pdu.group_identity_uplink.some
                    \/ pdu.proprietary.some
        write_optional_type3(bb, opt) ==
            IF opt.some
            THEN MmType3FieldUl_write(bb, opt.val.field_type, opt.val.data, opt.val.len)
            ELSE bb
        \* w is what write_type4_struct returned
        group_identity_uplink(w) ==
            IF ~w.ok THEN w
            ELSE [ok |-> TRUE, err |-> NoErr,
                  buf |-> write_mbit(write_optional_type3(w.buf, pdu.proprietary), 0)]
        \* b4 is the buffer after the fixed fields and the o-bit
        obit(b4) ==
            IF ~obit_val THEN [ok |-> TRUE, err |-> NoErr, buf |-> write_mbit(b4, 0)]
            ELSE group_identity_uplink(
                    write_type4_struct(
                        write_optional_type3(b4, pdu.group_report_response),
                        pdu.group_identity_uplink, ElemGroupIdentityUplink))
    IN  obit(write_obit(
                write_bits(
                    write_bits(
                        write_bits(b, PduTypeUAttachDetachGroupIdentity, 4),
                        Bool2Int(pdu.group_identity_report), 1),
                    Bool2Int(pdu.group_identity_attach_detach_mode), 1),
                Bool2Int(obit_val)))

to_bitbuf(pdu, b) ==
    LET obit_val == \/ pdu.group_report_response.some
                    \/ pdu.group_identity_uplink.some
                    \/ pdu.proprietary.some
        write_optional_type3(bb, opt) ==
            IF opt.some
            THEN MmType3FieldUl_write(bb, opt.val.field_type, opt.val.data, opt.val.len)
            ELSE bb
        \* w is what write_type4_struct returned
        group_identity_uplink(w) ==
            IF ~w.ok THEN w
            ELSE [ok |-> TRUE, err |-> NoErr,
                  buf |-> write_mbit(write_optional_type3(w.buf, pdu.proprietary), 0)]
        \* b4 is the buffer after the fixed fields and the o-bit
        obit(b4) ==
            IF ~obit_val THEN [ok |-> TRUE, err |-> NoErr, buf |-> b4]
            ELSE group_identity_uplink(
                    write_type4_struct(
                        write_optional_type3(b4, pdu.group_report_response),
                        pdu.group_identity_uplink, ElemGroupIdentityUplink))
    IN  obit(write_obit(
                write_bits(
                    write_bits(
                        write_bits(b, PduTypeUAttachDetachGroupIdentity, 4),
                        Bool2Int(pdu.group_identity_report), 1),
                    Bool2Int(pdu.group_identity_attach_detach_mode), 1),
                Bool2Int(obit_val)))

-----------------------------------------------------------------------------
(* Wire strings, written from the wire format (not with the encoder):      *)
(* [type code 4][report 1][mode 1][o-bit], then elements                   *)
(* [m-bit 1][id 4][length 11][payload] and the closing m-bit.              *)

Range(f) == {f[i] : i \in DOMAIN f}

RECURSIVE Flatten(_)
Flatten(ss) == IF ss = <<>> THEN <<>> ELSE Head(ss) \o Flatten(Tail(ss))

OptBits(opt, n) == IF opt.some THEN NatToBits(opt.val, n) ELSE <<>>

WireGiu(e) ==
    NatToBits(e.group_identity_attach_detach_type_identifier, 1)
    \o OptBits(e.class_of_usage, 3)
    \o OptBits(e.group_identity_detachment_uplink, 2)
    \o NatToBits(e.group_identity_address_type, 2)
    \o OptBits(e.gssi, 24) \o OptBits(e.address_extension, 24)
    \o OptBits(e.vgssi, 24)

WireElems(elems) == Flatten([i \in 1..Len(elems) |-> WireGiu(elems[i])])

WireType3(id, len, data) ==
    <<1>> \o NatToBits(id, 4) \o NatToBits(len, 11) \o NatToBits(data, len)

\* a Type-4 element whose length and count fields are given
WireType4Raw(id, len, count, elems) ==
    <<1>> \o NatToBits(id, 4) \o NatToBits(len, 11) \o NatToBits(count, 6)
    \o WireElems(elems)

\* a Type-4 element as the format defines it: length = 6 + payload bits
WireType4(id, elems) ==
    WireType4Raw(id, 6 + Len(WireElems(elems)), Len(elems), elems)

WireHeader(type, report, mode, obit) ==
    NatToBits(type, 4) \o <<report, mode, obit>>

\* the element this message declares, by field
ElemId(kind) ==
    CASE kind = "grr" -> ElemGroupReportResponse
      [] kind = "giu" -> ElemGroupIdentityUplink
      [] kind = "prop" -> ElemProprietary

WireElement(kind, t3, elems) ==
    IF kind = "giu" THEN WireType4(ElemId(kind), elems)
    ELSE WireType3(ElemId(kind), t3.len, t3.data)

WireChain(chain, t3, elems) ==
    Flatten([i \in 1..Len(chain) |-> WireElement(chain[i], t3, elems)])

CutEnd(s, c) == SubSeq(s, 1, Len(s) - c)

\* the 60 bits of decode_encode_test
TestVector ==
    <<0,1,1,1, 0, 1, 1,
      1, 1,0,0,0, 0,0,0,0,0,1,0,0,1,0,0, 0,0,0,0,0,1,
      0, 1,0,0, 0,0, 0,0,0,0,0,0,1,1,0,1,0,1,0,0,0,1,1,0,0,1,1,1,0,0,
      0>>

Kinds == {"grr", "giu", "prop"}

\* each declared element at most once, in any order
Chains ==
    {c \in UNION {[1..n -> Kinds] : n \in 0..3} :
        \A i, j \in DOMAIN c : i # j => c[i] # c[j]}

Rank(kind) == CASE kind = "grr" -> 1 [] kind = "giu" -> 2 [] kind = "prop" -> 3

InDeclaredOrder(chain) ==
    \A i, j \in DOMAIN chain : i < j => Rank(chain[i]) < Rank(chain[j])

\* the sub-element of the test vector (attach, class of usage 4, GSSI) and a
\* detachment, which is one bit shorter
GiuValues ==
    {GroupIdentityUplink(0, Some(4), NoneInt, 0, Some(217500), NoneInt, NoneInt),
     GroupIdentityUplink(1, NoneInt, Some(1), 0, Some(1), NoneInt, NoneInt)}

GiuSeqs == UNION {[1..n -> GiuValues] : n \in 0..MaxElems}

\* Type-3 payloads: every length up to MaxT3Len, all bits 0 or all bits 1
Type3Payloads ==
    UNION {{[len |-> l, data |-> d] : d \in {0, 2^l - 1}} : l \in 0..MaxT3Len}

MsgInput(family, wire, obit, chain, t3, elems, term, cut) ==
    [family |-> family, wire |-> wire, obit |-> obit, chain |-> chain, t3 |-> t3,
     elems |-> elems, term |-> term, cut |-> cut]

\* every short buffer, whatever its bits
ShortInputs ==
    {MsgInput("short", s, 0, <<>>, [len |-> 0, data |-> 0], <<>>, 0, 0) :
        s \in BitStrings(MaxShort)}

\* o-bit, a chain of declared elements and the closing bit, the last `cut`
\* bits missing
ChainInputs ==
    {MsgInput("chain",
              CutEnd(WireHeader(PduTypeUAttachDetachGroupIdentity, r, 1 - r, o)
                     \o WireChain(c, t3, es) \o <<term>>, cut),
              o, c, t3, es, term, cut) :
        r \in Bit, o \in {1}, c \in Chains, t3 \in Type3Payloads, es \in GiuSeqs,
        term \in Bit, cut \in 0..MaxCut}

\* o-bit 0 followed by more bits: a chain and its closing bit
TailInputs ==
    {MsgInput("tail",
              WireHeader(PduTypeUAttachDetachGroupIdentity, 0, 1, 0)
              \o WireChain(c, [len |-> 1, data |-> 1], es) \o <<0>>,
              0, c, [len |-> 1, data |-> 1], es, 0, 0) :
        c \in Chains, es \in GiuSeqs}

\* a Type-4 element whose length field is below the 6 bits of its count
ShortLenInputs ==
    {MsgInput("shortlen",
              WireHeader(PduTypeUAttachDetachGroupIdentity, 0, 1, 1)
              \o WireType4Raw(ElemGroupIdentityUplink, len, Len(es), es) \o <<0>>,
              1, <<"giu">>, [len |-> 0, data |-> 0], es, 0, 0) :
        len \in 0..6, es \in GiuSeqs}

TestVectorInput ==
    MsgInput("test", TestVector, 1, <<"giu">>, [len |-> 0, data |-> 0],
             <<GroupIdentityUplink(0, Some(4), NoneInt, 0, Some(217500), NoneInt, NoneInt)>>,
             0, 0)

MsgInputs ==
    ShortInputs \cup ChainInputs \cup TailInputs \cup ShortLenInputs
    \cup {TestVectorInput}

-----------------------------------------------------------------------------
(* Message specification: decode a wire string, then encode the decoded    *)
(* message into a fresh buffer, as decode_encode_test does.                *)

Init ==
    /\ input \in MsgInputs
    /\ buffer = from_bitstr(input.wire)
    /\ pc = "start"
    /\ result = NoDecode
    /\ out = new_autoexpand

\* UAttachDetachGroupIdentity::from_bitbuf(&mut buffer), under either build
FromBitbuf ==
    /\ pc = "start"
    /\ \E overflow_checks \in BOOLEAN :
         /\ result' = from_bitbuf(buffer, overflow_checks)
         /\ buffer' = result'.buf
    /\ pc' = "decoded"
    /\ UNCHANGED <<out, input>>

\* pdu.to_bitbuf(&mut BitBuffer::new_autoexpand(32))
ToBitbuf ==
    /\ pc = "decoded"
    /\ result.kind = "Ok"
    /\ out' = to_bitbuf(result.pdu, new_autoexpand).buf
    /\ pc' = "encoded"
    /\ UNCHANGED <<buffer, result, input>>

Next == FromBitbuf \/ ToBitbuf

Spec == Init /\ [][Next]_vars

-----------------------------------------------------------------------------
(* Properties of the message codec, under Spec *)

WireLen == Len(input.wire)

WireTypeCode == BitsToNat(SubSeq(input.wire, 1, 4))

\* the wire holds the four fixed fields, with this message's type code
HasHeader == WireLen >= 7 /\ WireTypeCode = PduTypeUAttachDetachGroupIdentity

\* a complete chain: o-bit 1, the elements of input.chain, closing m-bit 0
CompleteChain ==
    input.family \in {"chain", "test"} /\ input.cut = 0 /\ input.term = 0

\* what each optional field must decode to when its element is on the wire
ExpectedType3(kind) ==
    IF \E i \in DOMAIN input.chain : input.chain[i] = kind
    THEN Some([field_type |-> ElemId(kind), len |-> input.t3.len,
               data |-> input.t3.data])
    ELSE NoneType3

ExpectedType4 ==
    IF \E i \in DOMAIN input.chain : input.chain[i] = "giu"
    THEN Some(input.elems)
    ELSE NoneSeq

DecodedAsOnWire ==
    /\ result.kind = "Ok"
    /\ result.pdu.group_report_response = ExpectedType3("grr")
    /\ result.pdu.group_identity_uplink = ExpectedType4
    /\ result.pdu.proprietary = ExpectedType3("prop")

AllAbsent ==
    /\ ~result.pdu.group_report_response.some
    /\ ~result.pdu.group_identity_uplink.some
    /\ ~result.pdu.proprietary.some

\* C1: round trip.  Every well-formed wire string of the message decodes,
\* and encoding the decoded message into a fresh buffer gives the same bits.
\* Stated here for the wire strings the encoder itself writes: the seven
\* bits with o-bit 0, and o-bit 1 with one or more declared elements in
\* declared order and the closing m-bit 0 (the test vector is one of them).
C1_RoundTrip ==
    LET canonical ==
            \/ /\ input.family = "short"
               /\ HasHeader /\ WireLen = 7 /\ input.wire[7] = 0
            \/ /\ CompleteChain
               /\ input.chain # <<>> /\ InDeclaredOrder(input.chain)
    IN  canonical =>
            /\ pc = "decoded" => result.kind = "Ok"
            /\ pc = "encoded" => to_bitstr(out) = input.wire

\* The part of the round trip the code keeps: with the o-bit set, one or
\* more declared elements in declared order and the closing m-bit, the wire
\* string decodes and is written back bit for bit.
RoundTripWithTail ==
    (CompleteChain /\ input.chain # <<>> /\ InDeclaredOrder(input.chain)) =>
        /\ pc = "decoded" => result.kind = "Ok"
        /\ pc = "encoded" => to_bitstr(out) = input.wire

RoundTripTestVector ==
    /\ pc = "encoded" /\ input.family = "test"
    /\ to_bitstr(out) = TestVector

\* C2: absence propagation.  With the o-bit read as 0 the decode succeeds,
\* every optional field is absent and the cursor stays at bit 7, whatever
\* follows.
C2_AbsencePropagation ==
    (pc = "decoded" /\ HasHeader /\ input.wire[7] = 0) =>
        /\ result.kind = "Ok"
        /\ AllAbsent
        /\ buffer.pos = 7

C5_ChainTerminator ==
    pc = "decoded" =>
        /\ (result.obit = 1 /\ result.prop # "") =>
              /\ result.term_pos >= 7
              /\ IF result.term_pos < WireLen
                 THEN /\ buffer.pos = result.term_pos + 1
                      /\ result.kind = "Ok" <=> input.wire[result.term_pos + 1] = 0
                      /\ input.wire[result.term_pos + 1] = 1 =>
                            (result.kind = "Err" /\ result.err = InvalidObitValue)
                 ELSE /\ buffer.pos = result.term_pos
                      /\ result.kind = "Err"
                      /\ result.err = BufferEnded("trailing_obit")
        /\ (result.obit = 1 /\ result.prop = "") =>
              (result.kind # "Ok" /\ result.term_pos = -1)
        /\ (input.family = "chain" /\ input.cut = 0 /\ InDeclaredOrder(input.chain)
                /\ (input.term = 0 \/ "prop" \in Range(input.chain))) =>
              result.term_pos = WireLen - 1
        /\ result.obit = 0 => result.term_pos = -1
        /\ (input.family = "tail" /\ input.chain = <<>>) =>
              (result.kind = "Ok" /\ buffer.pos = 7 /\ WireLen = 8)

C5_Witness ==
    /\ pc = "decoded"
    /\ input.family = "chain" /\ input.cut = 0 /\ input.term = 1
    /\ input.chain = <<"grr", "giu", "prop">>
    /\ result.term_pos = WireLen - 1
    /\ result.err = InvalidObitValue

\* C6: error propagation.  A decode that succeeds has met, in its optional
\* elements, no failure other than "not present": an element that failed
\* with anything else made the decode fail.
C6_ErrorPropagation ==
    (pc = "decoded" /\ result.kind = "Ok") =>
        /\ result.grr \in {"", "Ok", "FieldNotPresent"}
        /\ result.giu \in {"", "Ok", "FieldNotPresent"}
        /\ result.prop \in {"", "Ok", "FieldNotPresent"}

\* the field a buffer of n < 7 bits ends in or before
FixedFieldAt(n) ==
    CASE n < 4 -> "pdu_type"
      [] n = 4 -> "group_identity_report"
      [] n = 5 -> "group_identity_attach_detach_mode"
      [] n = 6 -> "obit"

\* C7 as stated: a buffer that ends inside or before a fixed field makes the
\* decode fail with BufferEnded naming the field that could not be read.
C7_BufferEndedAlways ==
    (pc = "decoded" /\ WireLen < 7) =>
        /\ result.kind = "Err"
        /\ result.err = BufferEnded(FixedFieldAt(WireLen))

\* C7, amended: so it is when the buffer ends inside pdu_type, or holds this
\* message's type code; four type-code bits of another message fail with
\* InvalidPduType before any further field is read.  No value is returned.
C7_Boundary ==
    (pc = "decoded" /\ WireLen < 7) =>
        /\ result.kind = "Err"
        /\ result.obit = -1
        /\ IF WireLen >= 4 /\ WireTypeCode # PduTypeUAttachDetachGroupIdentity
           THEN result.err =
                    InvalidPduType(PduTypeUAttachDetachGroupIdentity, WireTypeCode)
           ELSE result.err = BufferEnded(FixedFieldAt(WireLen))

C7_Witness ==
    /\ pc = "decoded"
    /\ WireLen = 6 /\ WireTypeCode = PduTypeUAttachDetachGroupIdentity
    /\ result.err = BufferEnded("obit")
    /\ buffer.pos = 6

\* C9: definite outcome.  Every decode ends in Ok or Err: no panic and no
\* arithmetic wrap-around, whatever the input.
C9_DefiniteOutcome ==
    pc = "decoded" => (result.kind \in {"Ok", "Err"} /\ ~result.wrapped)

-----------------------------------------------------------------------------
(* Type-2 specification: type2::parse on every short buffer *)

FieldNames == {"class_of_usage", "gssi"}

Type2Init ==
    /\ buffer \in {from_bitstr(s) : s \in BitStrings(MaxWidth + 2)}
    /\ pc = "start"
    /\ result = [ok |-> TRUE, val |-> NoneInt, err |-> NoErr, buf |-> buffer]
    /\ out = new_autoexpand
    /\ input = [num_bits |-> 0, field_name |-> "", before |-> buffer]

Type2Parse ==
    /\ pc \in {"start", "type2_parse"}
    /\ \E w \in 1..MaxWidth, f \in FieldNames :
         LET r == type2_parse(buffer, w, f)
         IN  /\ result' = r
             /\ buffer' = r.buf
             /\ input' = [num_bits |-> w, field_name |-> f, before |-> buffer]
    /\ pc' = "type2_parse"
    /\ out' = out

Type2Write ==
    /\ pc = "type2_parse"
    /\ result.ok
    /\ out = new_autoexpand
    /\ out' = type2_write(out, result.val, input.num_bits)
    /\ pc' = "type2_write"
    /\ UNCHANGED <<buffer, result, input>>

Type2Next == Type2Parse \/ Type2Write

Type2Spec == Type2Init /\ [][Type2Next]_vars

-----------------------------------------------------------------------------
(* Type-2: properties, under Type2Spec *)

Before == input.before

BitAt(b, k) == b.bits[b.pos + k]

\* bits left in b at its cursor
Remaining(b) == Len(b.bits) - b.pos

\* C10 as stated: p-bit 0 gives absent after exactly 1 bit; p-bit 1 gives
\* the next `width` bits as the value after exactly 1 + width bits; a
\* shortfall on either read is BufferEnded with the caller's field name.
C10_FieldNameOnEitherRead ==
    pc = "type2_parse" =>
        IF Remaining(Before) = 0
        THEN ~result.ok /\ result.err = BufferEnded(input.field_name)
        ELSE IF BitAt(Before, 1) = 0
        THEN result.ok /\ ~result.val.some /\ buffer.pos = Before.pos + 1
        ELSE IF Remaining(Before) >= 1 + input.num_bits
        THEN /\ result.ok /\ result.val.some
             /\ NatToBits(result.val.val, input.num_bits)
                  = SubSeq(Before.bits, Before.pos + 2, Before.pos + 1 + input.num_bits)
             /\ buffer.pos = Before.pos + 1 + input.num_bits
        ELSE ~result.ok /\ result.err = BufferEnded(input.field_name)

\* C10, amended: the same, except that a shortfall on the p-bit read is
\* BufferEnded with field "pbit"; only a shortfall on the value read carries
\* the caller's field name.
C10_Type2Parse ==
    pc = "type2_parse" =>
        /\ buffer.bits = Before.bits
        /\ IF Remaining(Before) = 0
           THEN ~result.ok /\ result.err = BufferEnded("pbit")
           ELSE IF BitAt(Before, 1) = 0
           THEN result.ok /\ ~result.val.some /\ buffer.pos = Before.pos + 1
           ELSE IF Remaining(Before) >= 1 + input.num_bits
           THEN /\ result.ok /\ result.val.some
                /\ NatToBits(result.val.val, input.num_bits)
                     = SubSeq(Before.bits, Before.pos + 2,
                              Before.pos + 1 + input.num_bits)
                /\ buffer.pos = Before.pos + 1 + input.num_bits
           ELSE ~result.ok /\ result.err = BufferEnded(input.field_name)

C10_Witness ==
    /\ pc = "type2_parse"
    /\ Before.pos > 0
    /\ Remaining(Before) = 0
    /\ result.err = BufferEnded("pbit")

-----------------------------------------------------------------------------
(* Probe specification: the four Type-3/Type-4 readers called again and    *)
(* again on one buffer, each call at the cursor the last one left.         *)

\* repetitions of one probe that are told apart
MaxRepeat == 3

ProbeIds == {ElemGroupReportResponse, ElemGroupIdentityUplink, ElemProprietary}

ProbeOps ==
    {"parse_type3_generic", "parse_type3_struct", "parse_type4_header_generic",
     "parse_type4_struct"}

ProbeWires ==
    BitStrings(MaxShort)
    \cup {WireChain(c, t3, es) \o <<0>> :
            c \in Chains, t3 \in {[len |-> MaxT3Len, data |-> 1]},
            es \in {e \in GiuSeqs : Len(e) <= 1}}
    \cup {WireType4Raw(ElemGroupIdentityUplink, len, 0, <<>>) \o <<0>> : len \in 0..6}

ProbeInit ==
    /\ buffer \in {from_bitstr(w) : w \in ProbeWires}
    /\ pc = "start"
    /\ result = [kind |-> "Ok"]
    /\ out = new_autoexpand
    /\ input = [id |-> 0, before |-> buffer, count |-> 0, first |-> [kind |-> "Ok"]]

\* the call's result r becomes the state; count is how many times in a row
\* this probe has now been made at this cursor, first its first result.
\* A panic ends the program: no call follows it.
Probed(op, id, r) ==
    LET again == pc = op /\ input.id = id /\ input.before = buffer
    IN  /\ result' = r
        /\ buffer' = r.buf
        /\ pc' = IF r.kind = "Panic" THEN "panic" ELSE op
        /\ input' = [id |-> id, before |-> buffer,
                     count |-> IF again
                               THEN IF input.count < MaxRepeat THEN input.count + 1
                                    ELSE MaxRepeat
                               ELSE 1,
                     first |-> IF again THEN input.first ELSE r]
        /\ out' = out

ParseType3Generic ==
    /\ pc # "panic"
    /\ \E id \in ProbeIds :
         Probed("parse_type3_generic", id, parse_type3_generic(buffer, id))

ParseType3Struct ==
    /\ pc # "panic"
    /\ \E id \in ProbeIds :
         Probed("parse_type3_struct", id, parse_type3_struct(buffer, id))

ParseType4HeaderGeneric ==
    /\ pc # "panic"
    /\ \E id \in ProbeIds, overflow_checks \in BOOLEAN :
         Probed("parse_type4_header_generic", id,
                parse_type4_header_generic(buffer, id, overflow_checks))

ParseType4Struct ==
    /\ pc # "panic"
    /\ \E id \in ProbeIds, overflow_checks \in BOOLEAN :
         Probed("parse_type4_struct", id,
                parse_type4_struct(buffer, id, overflow_checks))

ProbeNext ==
    \/ ParseType3Generic
    \/ ParseType3Struct
    \/ ParseType4HeaderGeneric
    \/ ParseType4Struct

ProbeSpec == ProbeInit /\ [][ProbeNext]_vars

\* the probe for `id` at b's cursor fails: the continuation bit is 0, or it
\* is 1 and the four bits after it are another identity
ContinuationIsZero(b) == Remaining(b) >= 1 /\ BitAt(b, 1) = 0

OtherIdentity(b, id) ==
    /\ Remaining(b) >= 5
    /\ BitAt(b, 1) = 1
    /\ BitsToNat(SubSeq(b.bits, b.pos + 2, b.pos + 5)) # id

ProbeFails(b, id) == ContinuationIsZero(b) \/ OtherIdentity(b, id)

\* "not present", as each reader reports it
NotPresent ==
    CASE pc \in {"parse_type3_generic", "parse_type4_header_generic"} ->
            result.kind = "Err" /\ result.err = "FieldNotPresent"
      [] pc = "parse_type3_struct" -> result.kind = "Ok" /\ ~result.some
      [] pc = "parse_type4_struct" -> result.kind = "Ok" /\ ~result.val.some

\* C3: idempotent probing.  A probe that fails leaves the cursor and the
\* bits as they were and reports "not present"; made again at that cursor
\* it reports the same, however often.
C3_IdempotentProbing ==
    (pc \in ProbeOps /\ ProbeFails(Before, input.id)) =>
        /\ buffer = Before
        /\ NotPresent
        /\ result = input.first

C3_Witness ==
    /\ pc = "parse_type4_struct"
    /\ OtherIdentity(Before, input.id)
    /\ Before.pos > 0
    /\ input.count = MaxRepeat
    /\ buffer = Before

-----------------------------------------------------------------------------
(* Type-4 specification: write_type4_struct into a buffer that already     *)
(* holds some bits, then parse_type4_struct on what was written.           *)

Type4Values == {NoneSeq} \cup {Some(es) : es \in GiuSeqs}

Type4Init ==
    /\ \E prefix \in BitStrings(2), v \in Type4Values, id \in ProbeIds :
         /\ out = [bits |-> prefix, pos |-> Len(prefix)]
         /\ input = [value |-> v, id |-> id, start |-> Len(prefix), prefix |-> prefix]
    /\ buffer = new_autoexpand
    /\ pc = "start"
    /\ result = [kind |-> "Ok"]

WriteType4Struct ==
    /\ pc = "start"
    /\ LET w == write_type4_struct(out, input.value, input.id)
       IN  /\ out' = w.buf
           /\ result' = [kind |-> IF w.ok THEN "Ok" ELSE "Err"]
    /\ pc' = "written"
    /\ UNCHANGED <<buffer, input>>

\* the written bits, read from where the element starts
ParseWritten ==
    /\ pc = "written"
    /\ \E overflow_checks \in BOOLEAN :
         LET r == parse_type4_struct([bits |-> to_bitstr(out), pos |-> input.start],
                                     input.id, overflow_checks)
         IN  /\ result' = r
             /\ buffer' = r.buf
    /\ pc' = "parsed"
    /\ UNCHANGED <<out, input>>

Type4Next == WriteType4Struct \/ ParseWritten

Type4Spec == Type4Init /\ [][Type4Next]_vars

\* the fields of the element written at input.start
WrittenLength == BitsToNat(SubSeq(out.bits, input.start + 6, input.start + 16))

WrittenCount == BitsToNat(SubSeq(out.bits, input.start + 17, input.start + 22))

\* the bits the sub-element writers emitted: all that follows the header
WrittenPayload == SubSeq(out.bits, input.start + 23, Len(out.bits))

\* C8: length backfill.  A present sequence of k sub-elements is written
\* with the length field 6 + the bits its sub-elements take and the count
\* field k, and parsing the written bits gives the same k sub-elements in
\* order.
C8_LengthBackfill ==
    (pc \in {"written", "parsed"} /\ input.value.some) =>
        /\ result.kind = "Ok"
        /\ WrittenLength = 6 + Len(WrittenPayload)
        /\ WrittenPayload = WireElems(input.value.val)
        /\ WrittenCount = Len(input.value.val)
        /\ pc = "parsed" => (result.val = input.value /\ buffer.pos = Len(out.bits))

C8_Witness ==
    /\ pc = "parsed"
    /\ input.start > 0
    /\ input.value.some /\ Len(input.value.val) = MaxElems
    /\ input.value.val[1] # input.value.val[2]
    /\ result.val = input.value
    /\ WrittenCount = MaxElems

-----------------------------------------------------------------------------
(* Encode specification: to_bitbuf on every message value, into a fresh    *)
(* buffer.                                                                 *)

Type3Values(id) ==
    {NoneType3}
    \cup {Some([field_type |-> id, len |-> t3.len, data |-> t3.data]) :
            t3 \in Type3Payloads}

PduValues ==
    {[group_identity_report |-> r,
      group_identity_attach_detach_mode |-> m,
      group_report_response |-> g,
      group_identity_uplink |-> u,
      proprietary |-> p] :
        r \in BOOLEAN, m \in BOOLEAN, g \in Type3Values(ElemGroupReportResponse),
        u \in Type4Values, p \in Type3Values(ElemProprietary)}

EncodeInit ==
    /\ input \in {[pdu |-> v] : v \in PduValues}
    /\ out = new_autoexpand
    /\ buffer = new_autoexpand
    /\ pc = "start"
    /\ result = [ok |-> TRUE, err |-> NoErr]

\* pdu.to_bitbuf(&mut buffer) on a fresh buffer
EncodePdu ==
    /\ pc = "start"
    /\ LET w == to_bitbuf(input.pdu, out)
       IN  /\ out' = w.buf
           /\ result' = [ok |-> w.ok, err |-> w.err]
    /\ pc' = "encoded"
    /\ UNCHANGED <<buffer, input>>

EncodeNext == EncodePdu

EncodeSpec == EncodeInit /\ [][EncodeNext]_vars

\* the wire form of an optional Type-3 / Type-4 field: nothing when absent
WireOptType3(opt) ==
    IF opt.some THEN WireType3(opt.val.field_type, opt.val.len, opt.val.data)
    ELSE <<>>

WireOptType4(opt, id) == IF opt.some THEN WireType4(id, opt.val) ELSE <<>>

AnyPresent(pdu) ==
    \/ pdu.group_report_response.some
    \/ pdu.group_identity_uplink.some
    \/ pdu.proprietary.some

\* C11: encode structure.  to_bitbuf writes the type code, the two
\* unconditional bits and an o-bit that is 1 iff an optional field is
\* present; with none present nothing follows (7 bits); otherwise the
\* present elements follow in declared order, nothing for the absent ones,
\* and exactly one m-bit 0 ends the message.
C11_EncodeStructure ==
    pc = "encoded" =>
        LET pdu == input.pdu
            fixed(obit) ==
                WireHeader(PduTypeUAttachDetachGroupIdentity,
                           IF pdu.group_identity_report THEN 1 ELSE 0,
                           IF pdu.group_identity_attach_detach_mode THEN 1 ELSE 0,
                           obit)
        IN  /\ result.ok
            /\ IF AnyPresent(pdu)
               THEN to_bitstr(out) =
                        fixed(1)
                        \o WireOptType3(pdu.group_report_response)
                        \o WireOptType4(pdu.group_identity_uplink,
                                        ElemGroupIdentityUplink)
                        \o WireOptType3(pdu.proprietary)
                        \o <<0>>
               ELSE to_bitstr(out) = fixed(0) /\ Len(to_bitstr(out)) = 7

C11_Witness ==
    /\ pc = "encoded"
    /\ input.pdu.group_report_response.some
    /\ input.pdu.group_report_response.val.len = MaxT3Len
    /\ ~input.pdu.group_identity_uplink.some
    /\ input.pdu.proprietary.some
    /\ out.bits[8] = 1
    /\ out.bits[Len(out.bits)] = 0
    /\ out.pos = Len(out.bits)

-----------------------------------------------------------------------------
(* Type-4 read specification: parse_type4_struct on a Type-4 element whose *)
(* length and count fields are whatever the sender wrote, after some       *)
(* earlier bits and before a closing m-bit.                                *)

\* the element with sub-elements es, every count up to their number and every
\* length up to one more than the well-formed one
Type4ReadElements(es) ==
    {WireType4Raw(ElemGroupIdentityUplink, len, count, es) :
        len \in 0..(7 + Len(WireElems(es))), count \in 0..Len(es)}

\* the cursor is at the element's first bit
Type4ReadInit ==
    /\ \E prefix \in BitStrings(1),
          e \in UNION {Type4ReadElements(es) : es \in GiuSeqs} :
         /\ buffer = [bits |-> prefix \o e \o <<0>>, pos |-> Len(prefix)]
         /\ input = [id |-> 0, before |-> buffer, count |-> 0,
                     first |-> [kind |-> "Ok"]]
    /\ pc = "start"
    /\ result = [kind |-> "Ok"]
    /\ out = new_autoexpand

Type4ReadNext == ParseType4Struct

Type4ReadSpec == Type4ReadInit /\ [][Type4ReadNext]_vars

\* the 11-bit length and 6-bit count of the element at b's cursor
DeclaredLength(b) == BitsToNat(SubSeq(b.bits, b.pos + 6, b.pos + 16))

DeclaredCount(b) == BitsToNat(SubSeq(b.bits, b.pos + 17, b.pos + 22))

\* parse_type4_struct has just returned a present sequence
PresentSequence ==
    pc = "parse_type4_struct" /\ result.kind = "Ok" /\ result.val.some

\* C12: Type-4 length consistency on read.  Whenever parse_type4_struct
\* returns a present sequence, the decode function was called exactly count
\* times, each call where the previous one left the cursor, and the bits
\* those calls consumed are the declared length minus 6: the cursor ends at
\* the end of the element as its length field declares it.
C12_LengthConsistency ==
    PresentSequence =>
        /\ result.calls = DeclaredCount(Before)
        /\ Len(result.val.val) = DeclaredCount(Before)
        /\ WireElems(result.val.val)
             = SubSeq(Before.bits, Before.pos + 23, buffer.pos)
        /\ ~result.wrapped
        /\ buffer.pos - (Before.pos + 22) = DeclaredLength(Before) - 6

\* What the code keeps of it: count calls, each where the previous one left
\* the cursor, so that the bits consumed are the sub-elements' encodings one
\* after the other.  The length field plays no part.
CountCallsInSequence ==
    PresentSequence =>
        /\ result.calls = DeclaredCount(Before)
        /\ Len(result.val.val) = DeclaredCount(Before)
        /\ WireElems(result.val.val)
             = SubSeq(Before.bits, Before.pos + 23, buffer.pos)

\* a declared length of 6 (no payload) with one sub-element decoded
LengthIgnored ==
    /\ PresentSequence
    /\ ~result.wrapped
    /\ DeclaredLength(Before) = 6
    /\ DeclaredCount(Before) = 1
    /\ buffer.pos > Before.pos + 22

-----------------------------------------------------------------------------
(* Type-4 write: the frame of the backfill, under Type4Spec *)

\* the buffer as it is when the last sub-element has been written, before
\* the seek back: the earlier bits, m-bit and id, 17 zero bits, the
\* sub-elements
BeforeBackfill ==
    input.prefix \o <<1>> \o NatToBits(input.id, 4) \o [i \in 1..17 |-> 0]
    \o WireElems(input.value.val)

\* the positions of the 11 length bits and the 6 count bits
ReservedRegion == (input.start + 6)..(input.start + 22)

\* C13: backfill frame effect.  In write_type4_struct with a present
\* sequence the seek back overwrites only the 17 reserved bits after the
\* m-bit and id: every bit before the reserved region and every sub-element
\* bit after it is unchanged, the buffer is as long as before the
\* backfill, and on return the cursor is at the end of the last sub-element,
\* so that the next write appends directly after the element.
C13_BackfillFrame ==
    (pc \in {"written", "parsed"} /\ input.value.some) =>
        /\ Len(out.bits) = Len(BeforeBackfill)
        /\ \A i \in (1..Len(out.bits)) \ ReservedRegion :
              out.bits[i] = BeforeBackfill[i]
        /\ out.pos = Len(out.bits)
        /\ \A x \in Bit : to_bitstr(write_bit(out, x)) = out.bits \o <<x>>

C13_Witness ==
    /\ pc = "written"
    /\ input.start = 2
    /\ input.value.some /\ Len(input.value.val) = MaxElems
    /\ \E i \in ReservedRegion : out.bits[i] # BeforeBackfill[i]
    /\ out.pos = Len(out.bits)
    /\ out.pos > input.start + 22

====
